---- MODULE Spec2Model ----
(***************************************************************************)
(* MappingScript.py: six per-component stress tables are read, inner-      *)
(* joined on the element id, rendered into 8-column fields and written as  *)
(* one INISTRS block.                                                      *)
(*                                                                         *)
(* Text is modelled by TLA+ strings (Len, \o and SubSeq act on them as on  *)
(* sequences of characters).  A float is carried by its natural rendering, *)
(* the string Python's format gives it with no presentation type (the      *)
(* shortest repr); an integer by its value.                                *)
(***************************************************************************)
EXTENDS Integers, Sequences, FiniteSets, TLC

\* ------------------------------------------------------------------ bounds
\* Most lines in one source file.
MaxLines == 2
\* Element ids in the source files are 1..MaxId.
MaxId == 2

\* ------------------------------------------------------------- text helpers
Char(s, p) == SubSeq(s, p, p)

DigitChar(d) == SubSeq("0123456789", d + 1, d + 1)

IsDigit(c) == \E d \in 0..9 : DigitChar(d) = c

DigitVal(c) == CHOOSE d \in 0..9 : DigitChar(d) = c

RECURSIVE Digits(_)
Digits(n) ==
    IF n < 10 THEN DigitChar(n) ELSE Digits(n \div 10) \o DigitChar(n % 10)

\* str(n) of a Python int: what f"{n}" renders before padding.
IntToStr(n) == IF n < 0 THEN "-" \o Digits(-n) ELSE Digits(n)

RECURSIVE Spaces(_)
Spaces(k) == IF k <= 0 THEN "" ELSE " " \o Spaces(k - 1)

RECURSIVE LStrip(_)
LStrip(s) ==
    IF Len(s) > 0 /\ Char(s, 1) = " " THEN LStrip(SubSeq(s, 2, Len(s))) ELSE s

RECURSIVE RStrip(_)
RStrip(s) ==
    IF Len(s) > 0 /\ Char(s, Len(s)) = " "
    THEN RStrip(SubSeq(s, 1, Len(s) - 1))
    ELSE s

Strip(s) == RStrip(LStrip(s))

\* The digits of an integer literal, its sign taken off.
Unsigned(t) ==
    IF Len(t) > 0 /\ Char(t, 1) \in {"-", "+"} THEN SubSeq(t, 2, Len(t)) ELSE t

\* Whether int(s) succeeds: blanks around, an optional sign, digits.
IsIntLiteral(s) ==
    LET u == Unsigned(Strip(s))
    IN  Len(u) > 0 /\ \A p \in 1..Len(u) : IsDigit(Char(u, p))

RECURSIVE DigitsVal(_)
DigitsVal(u) ==
    IF Len(u) = 0 THEN 0
    ELSE 10 * DigitsVal(SubSeq(u, 1, Len(u) - 1)) + DigitVal(Char(u, Len(u)))

\* int(s) for a string that IsIntLiteral.
ParseInt(s) ==
    LET t == Strip(s)
    IN  IF Char(t, 1) = "-" THEN 0 - DigitsVal(Unsigned(t))
        ELSE DigitsVal(Unsigned(t))

\* f"{s:<8}": left-justified, padded to at least 8, never cut.
LJust8(s) == s \o Spaces(8 - Len(s))

\* f"{s:>8}" and the default alignment of a number in f"{x:8}".
RJust8(s) == Spaces(8 - Len(s)) \o s

\* ------------------------------------------------------------- format_field
\* A value as isinstance sees it: type "str" (s), "int" (n), "float" (s: its
\* natural rendering), or a type none of the three branches accepts, such as
\* "numpy.int64" (s).
StrV(s) == [type |-> "str", s |-> s, n |-> 0]
IntV(n) == [type |-> "int", s |-> "", n |-> n]
FloatV(s) == [type |-> "float", s |-> s, n |-> 0]
NpIntV(s) == [type |-> "numpy.int64", s |-> s, n |-> 0]

Returned(text) == [raised |-> FALSE, text |-> text]
ValueError == [raised |-> TRUE, text |-> "Unsupported type for value"]

format_field_nocap(value) ==
    IF value.type = "str" THEN Returned(LJust8(value.s))
    ELSE IF value.type = "int" THEN Returned(RJust8(IntToStr(value.n)))
    ELSE IF value.type = "float" THEN Returned(RJust8(value.s))
    ELSE ValueError

format_field_ljust(value) ==
    IF value.type = "str" THEN Returned(LJust8(value.s))
    ELSE IF value.type = "int" THEN Returned(LJust8(IntToStr(value.n)))
    ELSE IF value.type = "float" THEN
        LET formatted == RJust8(value.s)
        IN  Returned(IF Len(formatted) > 8 THEN SubSeq(formatted, 1, 8)
                     ELSE formatted)
    ELSE ValueError

format_field(value) ==
    IF value.type = "str" THEN Returned(LJust8(value.s))
    ELSE IF value.type = "int" THEN Returned(RJust8(IntToStr(value.n)))
    ELSE IF value.type = "float" THEN
        \* both sign branches run the same two statements
        LET formatted == RJust8(value.s)
        IN  Returned(IF Len(formatted) > 8 THEN SubSeq(formatted, 1, 8)
                     ELSE formatted)
    ELSE ValueError

\* The text of a field whose formatting did not raise.
Field(value) == format_field(value).text

header_line ==
    Field(StrV("INISTRS")) \o Field(StrV("100")) \o Field(StrV(""))
        \o Field(StrV("0"))

\* elem_line for int(row["ELEM"]) = id.
elem_line(id) == Field(StrV("")) \o Field(StrV("ELEM")) \o Field(IntV(id))

RECURSIVE ConcatFields(_)
ConcatFields(values) ==
    IF Len(values) = 0 THEN ""
    ELSE Field(Head(values)) \o ConcatFields(Tail(values))

\* value_line for row[1:].values = values.
value_line(values) ==
    Field(StrV("")) \o Field(StrV("VALUE")) \o ConcatFields(values)

\* ---------------------------------------------------------------- sources
FX == "StressE_TensorX_Ambient_MPa.fem"
FY == "StressE_TensorY_Ambient_MPa.fem"
FXY == "StressE_TensorXY_c8_Ambient_MPa.fem"
FXZ == "StressE_TensorXZ_c8_Ambient_MPa.fem"

\* The list as the script has it: the third and the sixth entries repeat the
\* second and the fifth.
file_names == << FX, FY, FY, FXY, FXZ, FXZ >>

components == << "XX", "YY", "ZZ", "XY", "YZ", "ZX" >>

Files == {file_names[k] : k \in 1..Len(file_names)}

Ids == 1..MaxId

\* The literal a source file holds for an element: odd ids carry decimal
\* literals (plain and exponential), even ids carry integer literals.
SourceValue(file, id) ==
    IF id % 2 = 1
    THEN CASE file = FX -> "-1.2345E+01"
           [] file = FY -> "1234.567"
           [] file = FXY -> "-1234.567"
           [] OTHER -> "1.23456789E-05"
    ELSE CASE file = FX -> "0"
           [] file = FY -> "5"
           [] file = FXY -> "-3"
           [] OTHER -> "12"

\* repr(float(lit)) for the decimal literals above.
FloatRepr(lit) ==
    CASE lit = "-1.2345E+01" -> "-12.345"
      [] lit = "1234.567" -> "1234.567"
      [] lit = "-1234.567" -> "-1234.567"
      [] lit = "1.23456789E-05" -> "1.23456789e-05"

\* A line is the sequence of its whitespace-separated fields.
DataLine(file, id) == << IntToStr(id), SourceValue(file, id) >>
ShortLine(id) == << IntToStr(id) >>
CommentLine == << "$", "ELEM", "VALUE" >>

IsRegular(line) == Len(line) = 2 /\ Char(line[1], 1) # "$"

RegularLines(file) == {DataLine(file, id) : id \in Ids}
Lines(file) ==
    RegularLines(file) \cup {ShortLine(id) : id \in Ids} \cup {CommentLine}

SeqsUpTo(S, n) == UNION {[1..k -> S] : k \in 1..n}

Present(lines) == [exists |-> TRUE, lines |-> lines]
NoFile == [exists |-> FALSE, lines |-> << >>]

RegularTables(file) ==
    {Present(t) : t \in SeqsUpTo(RegularLines(file), MaxLines)}

\* Tables with exactly one line that is a comment or lacks its value, and at
\* least one line that is not a comment; and the file that does not exist.
IrregularTables(file) ==
    {Present(t) : t \in
        {u \in SeqsUpTo(Lines(file), MaxLines) :
            /\ Cardinality({p \in 1..Len(u) : ~IsRegular(u[p])}) = 1
            /\ \E p \in 1..Len(u) : u[p] # CommentLine}}
    \cup {NoFile}

\* The file system holding the four files the script names.
FileSystem(a, b, c, d) ==
    [f \in Files |-> CASE f = FX -> a [] f = FY -> b [] f = FXY -> c
                        [] OTHER -> d]

\* The file systems a run starts from: every file regular, or all but one.
IsSourceFS(x) ==
    \/ \E a \in RegularTables(FX), b \in RegularTables(FY),
          c \in RegularTables(FXY), d \in RegularTables(FXZ) :
          x = FileSystem(a, b, c, d)
    \/ \E a \in IrregularTables(FX), b \in RegularTables(FY),
          c \in RegularTables(FXY), d \in RegularTables(FXZ) :
          x = FileSystem(a, b, c, d)
    \/ \E a \in RegularTables(FX), b \in IrregularTables(FY),
          c \in RegularTables(FXY), d \in RegularTables(FXZ) :
          x = FileSystem(a, b, c, d)
    \/ \E a \in RegularTables(FX), b \in RegularTables(FY),
          c \in IrregularTables(FXY), d \in RegularTables(FXZ) :
          x = FileSystem(a, b, c, d)
    \/ \E a \in RegularTables(FX), b \in RegularTables(FY),
          c \in RegularTables(FXY), d \in IrregularTables(FXZ) :
          x = FileSystem(a, b, c, d)

\* ---------------------------------------------------------------- read_csv
\* comment='$': a line is cut at the first field that starts with the marker.
RECURSIVE CutComment(_)
CutComment(line) ==
    IF Len(line) = 0 \/ Char(Head(line), 1) = "$" THEN << >>
    ELSE << Head(line) >> \o CutComment(Tail(line))

RECURSIVE DataLines(_)
DataLines(lines) ==
    IF Len(lines) = 0 THEN << >>
    ELSE LET cut == CutComment(Head(lines))
         IN  (IF Len(cut) = 0 THEN << >> ELSE << cut >>)
                 \o DataLines(Tail(lines))

\* The second column's cell of a line; a line with one field has none (NaN).
Cell(line) == IF Len(line) >= 2 THEN line[2] ELSE ""

\* The column's dtype: int64 when every cell is an integer literal.
ColumnDtype(data) ==
    IF \A p \in 1..Len(data) : IsIntLiteral(Cell(data[p]))
    THEN "int64" ELSE "float64"

\* A cell's value in a column of the given dtype, as its natural rendering.
CellValue(cell, dtype) ==
    IF dtype = "int64" THEN IntToStr(ParseInt(cell))
    ELSE IF cell = "" THEN "nan"
    ELSE IF IsIntLiteral(cell) THEN IntToStr(ParseInt(cell)) \o ".0"
    ELSE FloatRepr(cell)

\* pd.read_csv(file, sep='\s+', comment='$', header=None, names=[ELEM, COMP]):
\* a frame is its value column's dtype and its rows << ELEM, value >>.
read_csv(lines) ==
    LET data == DataLines(lines)
        dtype == ColumnDtype(data)
    IN  [dtype |-> dtype,
         rows |-> [p \in 1..Len(data) |->
                     << ParseInt(data[p][1]), CellValue(Cell(data[p]), dtype) >>]]

\* ------------------------------------------------------------------- merge
\* The rows of right whose ELEM is id, in right's order.
RECURSIVE Matches(_, _)
Matches(right, id) ==
    IF Len(right) = 0 THEN << >>
    ELSE (IF Head(right)[1] = id THEN << Head(right) >> ELSE << >>)
             \o Matches(Tail(right), id)

ExtendRow(l, ms) == [p \in 1..Len(ms) |-> Append(l, ms[p][2])]

\* The rows left's rows lo..hi give, by halves: JoinRows(left, right, lo, hi,
\* keep) is, per row of left in order, its extensions by the matching rows of
\* right; with keep, a row without a match stays, its value missing.
RECURSIVE JoinRows(_, _, _, _, _)
JoinRows(left, right, lo, hi, keep) ==
    IF lo > hi THEN << >>
    ELSE IF lo = hi THEN
        LET ms == Matches(right, left[lo][1])
        IN  IF keep /\ Len(ms) = 0 THEN << Append(left[lo], "nan") >>
            ELSE ExtendRow(left[lo], ms)
    ELSE LET mid == (lo + hi) \div 2
         IN  JoinRows(left, right, lo, mid, keep)
                 \o JoinRows(left, right, mid + 1, hi, keep)

merge_left(left, right) == JoinRows(left, right, 1, Len(left), TRUE)

\* The join in the order of right's rows and, within one, of left's.
merge_right_order(left, right) ==
    LET packed == [p \in 1..Len(left) |-> << left[p][1], left[p] >>]
        joined == JoinRows(right, packed, 1, Len(right), FALSE)
    IN  [p \in 1..Len(joined) |-> Append(joined[p][3], joined[p][2])]

\* left.merge(right, on="ELEM"): the inner join, one row per pair of rows with
\* equal ELEM, in the order of left's rows (how="inner" keeps the order of the
\* left keys) and, within one, of right's.
merge(left, right) == JoinRows(left, right, 1, Len(left), FALSE)

\* ---------------------------------------------------------------- iterrows
\* A row of iterrows has one dtype: int64 when ELEM and the six value columns
\* all are, float64 otherwise (the int64 columns are then converted).
RowDtype(frames) ==
    IF \A k \in 1..Len(frames) : frames[k].dtype = "int64"
    THEN "int64" ELSE "float64"

\* row[1:].values of a joined row: numpy.int64 scalars, which are no int, or
\* numpy.float64 scalars, which are floats.
RowValues(row, frames) ==
    [k \in 1..(Len(row) - 1) |->
        IF RowDtype(frames) = "int64" THEN NpIntV(row[k + 1])
        ELSE IF frames[k].dtype = "int64" THEN FloatV(row[k + 1] \o ".0")
        ELSE FloatV(row[k + 1])]

\* ------------------------------------------------------------------- write
\* lines[lo..hi] with sep between two of them, by halves.
RECURSIVE JoinRange(_, _, _, _)
JoinRange(sep, lines, lo, hi) ==
    IF lo > hi THEN ""
    ELSE IF lo = hi THEN lines[lo]
    ELSE LET mid == (lo + hi) \div 2
         IN  JoinRange(sep, lines, lo, mid) \o sep
                 \o JoinRange(sep, lines, mid + 1, hi)

JoinLinesTrailing(sep, lines) ==
    IF Len(lines) = 0 THEN "" ELSE JoinRange(sep, lines, 1, Len(lines)) \o sep

\* sep.join(lines)
JoinLines(sep, lines) == JoinRange(sep, lines, 1, Len(lines))

output_file == "mapped_stress_data.fem"

\* ------------------------------------------------------------------- state
VARIABLES
    fs,             \* the source files: name -> [exists, lines]
    pc,             \* the statement the script is at
    opened,         \* the file names handed to read_csv so far
    data_frames,    \* the frames read so far
    merged,         \* iterations of the merge loop done
    combined_data,  \* the joined rows << ELEM, value, ... >>
    row_i,          \* iterations of the iterrows loop done
    output_lines,   \* the lines formatted so far
    dest,           \* the output file: [exists, text]
    arg,            \* format_field on its own: the argument
    ret             \* format_field on its own: the outcome

vars ==
    << fs, pc, opened, data_frames, merged, combined_data, row_i,
       output_lines, dest, arg, ret >>

NoDest == [exists |-> FALSE, text |-> ""]

\* The output file of an earlier run.
StaleDest == [exists |-> TRUE, text |-> "stale"]

Init ==
    /\ IsSourceFS(fs)
    /\ pc = "read"
    /\ opened = << >>
    /\ data_frames = << >>
    /\ merged = 0
    /\ combined_data = << >>
    /\ row_i = 0
    /\ output_lines = << >>
    /\ dest \in {NoDest, StaleDest}
    /\ arg = StrV("")
    /\ ret = Returned("")

\* One iteration of the reading loop; a missing file ends the run.
ReadFile ==
    /\ pc = "read"
    /\ LET file == file_names[Len(data_frames) + 1]
       IN  /\ opened' = Append(opened, file)
           /\ IF fs[file].exists
              THEN /\ data_frames' = Append(data_frames, read_csv(fs[file].lines))
                   /\ pc' = IF Len(data_frames) + 1 = Len(file_names)
                            THEN "select" ELSE "read"
              ELSE /\ pc' = "failed"
                   /\ UNCHANGED data_frames
    /\ UNCHANGED << fs, merged, combined_data, row_i, output_lines, dest, arg, ret >>

\* combined_data = data_frames[0][["ELEM"]].copy()
SelectElem ==
    /\ pc = "select"
    /\ combined_data' =
           [p \in 1..Len(data_frames[1].rows) |-> << data_frames[1].rows[p][1] >>]
    /\ pc' = "merge"
    /\ UNCHANGED << fs, opened, data_frames, merged, row_i, output_lines, dest,
                    arg, ret >>

\* One iteration of the merge loop, which runs over all six frames.
MergeNext ==
    /\ pc = "merge"
    /\ combined_data' = merge(combined_data, data_frames[merged + 1].rows)
    /\ merged' = merged + 1
    /\ pc' = IF merged + 1 = Len(data_frames) THEN "header" ELSE "merge"
    /\ UNCHANGED << fs, opened, data_frames, row_i, output_lines, dest, arg, ret >>

\* output_lines = [] and the INISTRS line.
Header ==
    /\ pc = "header"
    /\ output_lines' = << header_line >>
    /\ pc' = IF Len(combined_data) = 0 THEN "open" ELSE "rows"
    /\ UNCHANGED << fs, opened, data_frames, merged, combined_data, row_i, dest,
                    arg, ret >>

\* One iteration of the iterrows loop: the ELEM line is appended, then the
\* VALUE line is built; a value format_field rejects ends the run there.
FormatRow ==
    /\ pc = "rows"
    /\ LET row == combined_data[row_i + 1]
           values == RowValues(row, data_frames)
       IN  IF \E k \in 1..Len(values) : format_field(values[k]).raised
           THEN /\ output_lines' = Append(output_lines, elem_line(row[1]))
                /\ pc' = "failed"
                /\ UNCHANGED row_i
           ELSE /\ output_lines' =
                       output_lines \o << elem_line(row[1]), value_line(values) >>
                /\ row_i' = row_i + 1
                /\ pc' = IF row_i + 1 = Len(combined_data) THEN "open" ELSE "rows"
    /\ UNCHANGED << fs, opened, data_frames, merged, combined_data, dest, arg, ret >>

\* The file is opened as soon as the rows loop begins.
OpenOutputEarly ==
    /\ pc \in {"open", "rows"}
    /\ dest' = [exists |-> TRUE, text |-> ""]
    /\ pc' = IF pc = "open" THEN "write" ELSE pc
    /\ dest \in {NoDest, StaleDest}
    /\ UNCHANGED << fs, opened, data_frames, merged, combined_data, row_i,
                    output_lines, arg, ret >>

\* open(output_file, "w"): the file is created, or emptied.
OpenOutput ==
    /\ pc = "open"
    /\ dest' = [exists |-> TRUE, text |-> ""]
    /\ pc' = "write"
    /\ UNCHANGED << fs, opened, data_frames, merged, combined_data, row_i,
                    output_lines, arg, ret >>

\* f.write("\n".join(output_lines)) and the end of the with block.
WriteOutput ==
    /\ pc = "write"
    /\ dest' = [exists |-> TRUE, text |-> JoinLines("\n", output_lines)]
    /\ pc' = "done"
    /\ UNCHANGED << fs, opened, data_frames, merged, combined_data, row_i,
                    output_lines, arg, ret >>

Next ==
    \/ ReadFile
    \/ SelectElem
    \/ MergeNext
    \/ Header
    \/ FormatRow
    \/ OpenOutput
    \/ WriteOutput

Spec == Init /\ [][Next]_vars

\* ------------------------------------------------ format_field on its own
\* The tokens the script formats, and one that fills the field.
TextInputs == {"", "0", "100", "ELEM", "VALUE", "INISTRS", "ABCDEFGH"}

IntInputs ==
    {0, 1, 7, 10, 42, 100, 999, 1000, 12345, 999999, 1234567, 9999999,
     10000000, 12345678, 99999999, 100000000, 123456789}

\* Floats by their natural rendering, from 3 to 23 characters.
FloatInputs ==
    {"0.0", "-0.0", "1.5", "-1.5", "0.1", "nan", "inf", "-inf", "15.0",
     "1e-05", "1e+22", "-1e+22", "5e-324", "-12.345", "123456.7", "1234.567",
     "-123.456", "-1234.567", "12345.678", "-0.000123", "1000000.0",
     "1.23456789e-05", "-1.23456789e-05", "1.7976931348623157e+308",
     "-1.7976931348623157e+308"}

FormatInputs ==
    {StrV(s) : s \in TextInputs} \cup {IntV(n) : n \in IntInputs}
        \cup {FloatV(s) : s \in FloatInputs} \cup {NpIntV("0"), NpIntV("5")}

InitFmt ==
    /\ arg \in FormatInputs
    /\ ret = Returned("")
    /\ pc = "call"
    /\ fs = [f \in Files |-> NoFile]
    /\ opened = << >>
    /\ data_frames = << >>
    /\ merged = 0
    /\ combined_data = << >>
    /\ row_i = 0
    /\ output_lines = << >>
    /\ dest = NoDest

CallFormatField ==
    /\ pc = "call"
    /\ ret' = format_field(arg)
    /\ pc' = "returned"
    /\ UNCHANGED << fs, opened, data_frames, merged, combined_data, row_i,
                    output_lines, dest, arg >>

\* The ELEM line of an element whose id is arg.
BuildElemLine ==
    /\ pc = "returned"
    /\ arg.type = "int"
    /\ output_lines' = << elem_line(arg.n) >>
    /\ pc' = "line"
    /\ UNCHANGED << fs, opened, data_frames, merged, combined_data, row_i,
                    dest, arg, ret >>

\* The VALUE line of a row whose six values all are arg.
BuildValueLine ==
    /\ pc = "returned"
    /\ arg.type = "float"
    /\ output_lines' = << value_line([k \in 1..Len(components) |-> arg]) >>
    /\ pc' = "line"
    /\ UNCHANGED << fs, opened, data_frames, merged, combined_data, row_i,
                    dest, arg, ret >>

NextFmt ==
    \/ CallFormatField
    \/ BuildElemLine
    \/ BuildValueLine

SpecFmt == InitFmt /\ [][NextFmt]_vars

\* ------------------------------------------------------------ the claims
IdSeq(rows) == [p \in 1..Len(rows) |-> rows[p][1]]

IdsOf(rows) == {rows[p][1] : p \in 1..Len(rows)}

\* The ids every one of the first m frames holds.
InFrames(e, m) == \A k \in 1..m : e \in IdsOf(data_frames[k].rows)

\* The six reads are done and the join has begun.
Joining == Len(data_frames) = Len(file_names) /\ pc \notin {"read", "select"}

JoinDone == Joining /\ merged = Len(file_names)

\* C1: once the merge loop has run over m frames, the joined table holds a
\* record for an element id exactly when the id is in the reference table and
\* in each of those m frames (all six when the loop is over); the join itself
\* never ends the run.
C1_InnerJoinMembership ==
    Joining =>
        /\ \A e \in Ids :
              e \in IdsOf(combined_data) <=>
                  (e \in IdsOf(data_frames[1].rows) /\ InFrames(e, merged))
        /\ (pc = "failed" => merged = Len(file_names))

\* C1's case: an id of the reference table is dropped because another table
\* lacks it, while another id is joined.
C1_Witness ==
    /\ JoinDone
    /\ combined_data # << >>
    /\ \E e \in IdsOf(data_frames[1].rows) :
          /\ e \notin IdsOf(combined_data)
          /\ \E k \in 2..Len(data_frames) : e \notin IdsOf(data_frames[k].rows)

\* C2: the six reads are of six different sources, one per component.
C2_SixDistinctSources ==
    \A i, j \in 1..Len(opened) : i # j => opened[i] # opened[j]

\* Characters of lines lo..hi, each followed by one break, by halves.
RECURSIVE Span(_, _, _)
Span(lines, lo, hi) ==
    IF lo > hi THEN 0
    ELSE IF lo = hi THEN Len(lines[lo]) + 1
    ELSE Span(lines, lo, (lo + hi) \div 2)
             + Span(lines, (lo + hi) \div 2 + 1, hi)

\* Characters of text before line i.
Offset(lines, i) == Span(lines, 1, i - 1)

NoBreak(line) == \A p \in 1..Len(line) : Char(line, p) # "\n"

\* text is the lines in order, one newline between two, none after the last.
TextIsLines(text, lines) ==
    LET n == Len(lines)
    IN  /\ Len(text) = Offset(lines, n) + Len(lines[n])
        /\ \A i \in 1..n :
              /\ NoBreak(lines[i])
              /\ SubSeq(text, Offset(lines, i) + 1,
                        Offset(lines, i) + Len(lines[i])) = lines[i]
              /\ i < n => Char(text, Offset(lines, i) + Len(lines[i]) + 1) = "\n"

IsElemLineOf(line, id) ==
    /\ SubSeq(line, 1, 16) = "        ELEM    "
    /\ IsIntLiteral(SubSeq(line, 17, Len(line)))
    /\ ParseInt(SubSeq(line, 17, Len(line))) = id

\* t is the text s, or s with the ".0" of an integer read as a float, cut to
\* the length of t.
IsCutOf(t, s) ==
    \/ Len(t) <= Len(s) /\ t = SubSeq(s, 1, Len(t))
    \/ Len(t) <= Len(s) + 2 /\ t = SubSeq(s \o ".0", 1, Len(t))

\* line is a VALUE line whose k-th value field shows the k-th value of row.
IsValueLineOf(line, row) ==
    /\ SubSeq(line, 1, 16) = "        VALUE   "
    /\ Len(line) = 16 + 8 * Len(components)
    /\ Len(row) = 1 + Len(components)
    /\ \A k \in 1..Len(components) :
          LET field == Strip(SubSeq(line, 9 + 8 * k, 16 + 8 * k))
          IN  Len(field) > 0 /\ IsCutOf(field, row[k + 1])

\* C3: the text written for a joined table of n records is 1 + 2n lines: the
\* header, then per record, in join order, its ELEM line and its VALUE line,
\* with one newline between two lines and none after the last.
C3_OutputBlockShape ==
    pc = "done" =>
        LET n == Len(combined_data)
        IN  /\ Len(output_lines) = 1 + 2 * n
            /\ output_lines[1] = "INISTRS 100             0       "
            /\ \A i \in 1..n :
                  /\ IsElemLineOf(output_lines[2 * i], combined_data[i][1])
                  /\ IsValueLineOf(output_lines[2 * i + 1], combined_data[i])
            /\ dest.exists
            /\ TextIsLines(dest.text, output_lines)

\* C3's case: a block of at least two records has been written.
C3_Witness == pc = "done" /\ Len(combined_data) >= 2

\* C4: every field format_field returns is 8 characters, for a text token, a
\* positive integer id and a decimal value; an ELEM line is 24 characters and
\* a VALUE line 64.
C4_FieldWidthEight ==
    /\ (pc \in {"returned", "line"} /\ arg.type \in {"str", "int", "float"}
            /\ (arg.type = "int" => arg.n > 0))
         => (~ret.raised /\ Len(ret.text) = 8)
    /\ (pc = "line" /\ arg.type = "int" /\ arg.n > 0)
         => Len(output_lines[1]) = 24
    /\ (pc = "line" /\ arg.type = "float") => Len(output_lines[1]) = 64

HasDuplicate(rows) ==
    \E p, q \in 1..Len(rows) : p # q /\ rows[p][1] = rows[q][1]

\* C6: when a table holds an element id twice the join fails: no frame is
\* merged, no line is formatted and nothing is written.
C6_DuplicateKeyRejected ==
    (\E k \in 1..Len(data_frames) : HasDuplicate(data_frames[k].rows)) =>
        (merged = 0 /\ output_lines = << >> /\ dest \in {NoDest, StaleDest})

FloatLiterals == {SourceValue(f, id) : f \in Files, id \in Ids}

\* A line that is no comment and is not an integer id and a decimal value.
IsMalformed(line) ==
    /\ Char(line[1], 1) # "$"
    /\ ~(/\ Len(line) = 2
         /\ IsIntLiteral(line[1])
         /\ (IsIntLiteral(line[2]) \/ line[2] \in FloatLiterals))

\* C7: reading a source with a malformed line fails: no frame comes of it.
C7_ParseErrorOnMalformedLine ==
    \A k \in 1..Len(data_frames) :
        \A p \in 1..Len(fs[opened[k]].lines) :
            ~IsMalformed(fs[opened[k]].lines[p])

\* A sequence without its repeats, first occurrences kept.
Dedup(seq) ==
    LET firsts == {p \in 1..Len(seq) : \A q \in 1..(p - 1) : seq[q] # seq[p]}
    IN  [k \in 1..Cardinality(firsts) |->
            seq[CHOOSE p \in firsts :
                    Cardinality({q \in firsts : q <= p}) = k]]

Keep(seq, m) == SelectSeq(seq, LAMBDA e : InFrames(e, m))

\* Position of the first row of the reference table with id e.
FirstAt(e) ==
    CHOOSE p \in 1..Len(data_frames[1].rows) :
        /\ data_frames[1].rows[p][1] = e
        /\ \A q \in 1..(p - 1) : data_frames[1].rows[q][1] # e

\* C8: the ids of the joined records come in the order in which they first
\* appear in the reference table, whatever the row order of the other tables;
\* when the reference table lists no id twice, every record comes no earlier
\* than the records of the ids listed before its own.
C8_JoinOrder ==
    Joining =>
        /\ Dedup(IdSeq(combined_data)) =
               Keep(Dedup(IdSeq(data_frames[1].rows)), merged)
        /\ ~HasDuplicate(data_frames[1].rows) =>
               \A i, j \in 1..Len(combined_data) :
                   i < j => FirstAt(combined_data[i][1])
                               <= FirstAt(combined_data[j][1])

\* C8's case: two ids are joined in the reference table's order while another
\* table lists them the other way round.
C8_Witness ==
    /\ JoinDone
    /\ Len(Dedup(IdSeq(combined_data))) >= 2
    /\ \E k \in 2..Len(data_frames) :
          /\ Len(data_frames[k].rows) = 2
          /\ data_frames[k].rows[1][1] = combined_data[Len(combined_data)][1]
          /\ data_frames[k].rows[2][1] = combined_data[1][1]
          /\ combined_data[1][1] # combined_data[Len(combined_data)][1]

InEightDigits(n) == 0 <= n /\ n <= 99999999

\* text is digits at the right of an 8-character field, blanks before them.
IsRightJustified(text) ==
    /\ Len(text) = 8
    /\ \E k \in 1..8 :
          /\ SubSeq(text, 1, 8 - k) = Spaces(8 - k)
          /\ \A p \in (9 - k)..8 : IsDigit(Char(text, p))

\* C9: for an integer N of at most 8 digits, format_field(N) is N's digits
\* right-justified in 8 characters and parses back to N, and so does the
\* third field of the ELEM line of element N.
C9_IntegerRoundTrip ==
    (pc \in {"returned", "line"} /\ arg.type = "int" /\ InEightDigits(arg.n)) =>
        /\ ~ret.raised
        /\ IsRightJustified(ret.text)
        /\ ParseInt(ret.text) = arg.n
        /\ pc = "line" =>
              /\ Len(output_lines[1]) = 24
              /\ IsRightJustified(SubSeq(output_lines[1], 17, 24))
              /\ ParseInt(SubSeq(output_lines[1], 17, 24)) = arg.n

\* C9's case: the ELEM line of an 8-digit id has been built.
C9_Witness ==
    /\ pc = "line"
    /\ arg.type = "int"
    /\ arg.n >= 10000000
    /\ InEightDigits(arg.n)

\* The output file is as it was when the run began.
Untouched == dest \in {NoDest, StaleDest}

\* C10: reads, join, formatting and the write come in that order, the output
\* file is opened only when every line is formatted, and a run that fails
\* leaves the output file as it was, absent or not.
C10_PhaseOrder ==
    /\ (merged > 0 \/ combined_data # << >>) =>
           Len(data_frames) = Len(file_names)
    /\ output_lines # << >> => JoinDone
    /\ ~Untouched =>
           /\ JoinDone
           /\ row_i = Len(combined_data)
           /\ Len(output_lines) = 1 + 2 * Len(combined_data)
           /\ pc \in {"write", "done"}
           /\ dest.text # "" => pc = "done"
    /\ pc \notin {"write", "done"} => Untouched

\* C10's case: the run failed while formatting, with lines already formatted,
\* and the output file of an earlier run is as it was.
C10_Witness == pc = "failed" /\ output_lines # << >> /\ dest = StaleDest

====
